---- MODULE Spec2Model ----
(***************************************************************************)
(* Model of scripts/fix_audio_associations.py: the repository-root walk    *)
(* (find_repo_root) and the catalog repair pass (main): load the dialogue  *)
(* catalog, scan voices/, greedily assign the first available file of the  *)
(* entry's speaker to every entry whose AudioPath is empty or missing on   *)
(* disk, and write the catalog back.                                       *)
(*                                                                         *)
(* A dialogue entry (a Python dict) is a function whose DOMAIN is the set  *)
(* of keys present.  A path is a record [parent, stem, ext]; the empty     *)
(* string is EmptyPath.  A directory on the upward walk is its depth below *)
(* the filesystem root (depth 0).  The status literal U+2705 " Ready" is   *)
(* written "Ready".                                                        *)
(***************************************************************************)
EXTENDS Integers, Sequences, FiniteSets, TLC

\* ------------------------------------------------------------------ bounds
MaxEntries == 3
MaxDepth == 2
MaxRuns == 2

\* ------------------------------------------------------------------ state
VARIABLES
    pc,                      \* position of the process in main()
    startDepth,              \* depth of Path(__file__).parent.parent
    markers,                 \* filesystem: depth -> marker names in that directory
    voices,                  \* filesystem: the voices directory tree
    catalogFile,             \* filesystem: SimpleLoop/dialogue_catalog.json
    catalog_writes,          \* times the catalog was opened for writing in this run
    current,                 \* find_repo_root: current
    repo_root,               \* main: repo_root (a depth), NoRoot before it is set
    dialogues,               \* main: dialogues
    audio_files_by_speaker,  \* main: audio_files_by_speaker
    idx,                     \* main: position of the for loop (next entry)
    updates_made,            \* main: updates_made
    stdout,                  \* the "Updating ..." lines printed so far
    runs                     \* runs of the script started so far

vars == <<pc, startDepth, markers, voices, catalogFile, catalog_writes, current,
          repo_root, dialogues, audio_files_by_speaker, idx, updates_made,
          stdout, runs>>

NoRoot == 0 - 1

\* ------------------------------------------------------------------ paths
EmptyPath == [parent |-> <<>>, stem |-> "", ext |-> ""]

StalePath == [parent |-> <<"old">>, stem |-> "gone", ext |-> "mp3"]

File(stem, ext) == [stem |-> stem, ext |-> ext]

\* speaker_dir / name, as str(audio_file) renders it
VoicePath(speaker, f) == [parent |-> <<"voices", speaker>>, stem |-> f.stem, ext |-> f.ext]

\* os.path.exists on an unchanged filesystem
PathExists(tree, p) ==
    /\ tree.exists
    /\ Len(p.parent) = 2
    /\ p.parent[1] = "voices"
    /\ p.parent[2] \in DOMAIN tree.dirs
    /\ tree.dirs[p.parent[2]].isDir
    /\ \E i \in 1..Len(tree.dirs[p.parent[2]].listing) :
           tree.dirs[p.parent[2]].listing[i] = File(p.stem, p.ext)

\* ------------------------------------------------------------------ find_repo_root
\* current.parent: the filesystem root is its own parent
Parent(d) == IF d = 0 THEN 0 ELSE d - 1

\* the walk that only looks for the solution file
HasMarkerSlnOnly(fs, d) == "GameWatcher.sln" \in fs[d]

HasMarker(fs, d) == "GameWatcher.sln" \in fs[d] \/ ".git" \in fs[d]

\* ------------------------------------------------------------------ json
JsonDump(list) == [state |-> "ok", entries |-> list]

JsonLoad(file) == file.entries

Readable(file) == file.state = "ok"

\* ------------------------------------------------------------------ inventory scan
\* the scan without the reserved-name test
IsSpeakerDirAny(tree, name) == tree.dirs[name].isDir

IsSpeakerDir(tree, name) == tree.dirs[name].isDir /\ name # "previews"

IsMp3(f) == f.ext = "mp3"

Glob(tree, name) ==
    LET hits == SelectSeq(tree.dirs[name].listing, IsMp3)
    IN  [i \in 1..Len(hits) |-> VoicePath(name, hits[i])]

ScanInventory(tree) ==
    [s \in {n \in DOMAIN tree.dirs : IsSpeakerDir(tree, n) /\ Glob(tree, n) # <<>>}
        |-> Glob(tree, s)]

\* ------------------------------------------------------------------ repair loop
\* dialogue.get("AudioPath", "")
GetAudioPath(d) == IF "AudioPath" \in DOMAIN d THEN d["AudioPath"] ELSE EmptyPath

\* the skip test with the existence check inverted
AlreadyValidInverted(tree, d) ==
    GetAudioPath(d) # EmptyPath /\ ~PathExists(tree, GetAudioPath(d))

AlreadyValid(tree, d) == GetAudioPath(d) # EmptyPath /\ PathExists(tree, GetAudioPath(d))

HasPool(pools, speaker) == speaker \in DOMAIN pools /\ pools[speaker] # <<>>

\* taking the last file of the pool instead of the first
LastAvailable(pool) == pool[Len(pool)]

FirstAvailable(pool) == pool[1]

\* list.pop(): drops the last element whatever x is
RemoveLast(pool, x) == IF pool = <<>> THEN <<>> ELSE SubSeq(pool, 1, Len(pool) - 1)

\* the pool left as it is
RemoveNothing(pool, x) == pool

\* list.remove(x): drops the first element equal to x
RECURSIVE Remove(_, _)
Remove(pool, x) ==
    IF pool = <<>> THEN <<>>
    ELSE IF Head(pool) = x THEN Tail(pool)
    ELSE <<Head(pool)>> \o Remove(Tail(pool), x)

RepairKeys == {"AudioPath", "HasAudio", "AudioStatus", "AudioStatusColor"}

\* the entry rebuilt from the known fields only
RepairedKnownFields(d, new_path) ==
    [k \in (DOMAIN d \cup RepairKeys) \ {"Extra"} |->
        CASE k = "AudioPath" -> new_path
          [] k = "HasAudio" -> TRUE
          [] k = "AudioStatus" -> "Ready"
          [] k = "AudioStatusColor" -> "Green"
          [] OTHER -> d[k]]

Repaired(d, new_path) ==
    [k \in DOMAIN d \cup RepairKeys |->
        CASE k = "AudioPath" -> new_path
          [] k = "HasAudio" -> TRUE
          [] k = "AudioStatus" -> "Ready"
          [] k = "AudioStatusColor" -> "Green"
          [] OTHER -> d[k]]

\* ------------------------------------------------------------------ inputs
AllKeys == {"Id", "Text", "Speaker", "AudioPath", "HasAudio", "AudioStatus",
            "AudioStatusColor", "Extra"}

Kind(keys, speaker, path, has, status, color) ==
    [keys |-> keys, Speaker |-> speaker, AudioPath |-> path, HasAudio |-> has,
     AudioStatus |-> status, AudioStatusColor |-> color]

EntryKinds ==
    { Kind(AllKeys, "Guard", EmptyPath, FALSE, "Missing", "Red"),
      Kind(AllKeys, "Guard", StalePath, TRUE, "Ready", "Green"),
      Kind(AllKeys, "Guard", VoicePath("Guard", File("a", "mp3")), FALSE, "Missing", "Red"),
      Kind({"Id", "Text", "Speaker", "Extra"}, "Merchant", EmptyPath, FALSE, "", ""),
      Kind(AllKeys, "previews", EmptyPath, FALSE, "Missing", "Red"),
      Kind(AllKeys \ {"Speaker"}, "", EmptyPath, FALSE, "Missing", "Red"),
      Kind(AllKeys \ {"Id"}, "Guard", EmptyPath, FALSE, "Missing", "Red") }

MkEntry(id, kind) ==
    [k \in kind.keys |->
        CASE k = "Id" -> id
          [] k = "Text" -> "line"
          [] k = "Extra" -> "x"
          [] OTHER -> kind[k]]

Catalogs(n, kinds) ==
    UNION { { [i \in 1..len |-> MkEntry(i, ks[i])] : ks \in [1..len -> kinds] } : len \in 0..n }

CatalogFiles(n, kinds) ==
    { JsonDump(c) : c \in Catalogs(n, kinds) }
      \cup { [state |-> "missing", entries |-> <<>>], [state |-> "invalid", entries |-> <<>>] }

Dir(listing) == [isDir |-> TRUE, listing |-> listing]

PlainFile == [isDir |-> FALSE, listing |-> <<>>]

GuardChoices ==
    { <<>>,
      <<Dir(<<>>)>>,
      <<Dir(<<File("a", "mp3")>>)>>,
      <<Dir(<<File("b", "mp3"), File("a", "mp3")>>)>>,
      <<Dir(<<File("a", "mp3"), File("notes", "txt"), File("b", "mp3")>>)>> }

MerchantChoices == { <<>>, <<PlainFile>>, <<Dir(<<File("m", "mp3")>>)>> }

PreviewsChoices == { <<>>, <<Dir(<<File("p", "mp3")>>)>> }

Tree(g, m, p) ==
    LET pick == [n \in {"Guard", "Merchant", "previews"} |->
                    CASE n = "Guard" -> g [] n = "Merchant" -> m [] OTHER -> p]
    IN  [exists |-> TRUE,
         dirs |-> [n \in {q \in DOMAIN pick : pick[q] # <<>>} |-> pick[n][1]]]

NoVoices == [exists |-> FALSE, dirs |-> <<>>]

Trees ==
    { Tree(g, m, p) : g \in GuardChoices, m \in MerchantChoices, p \in PreviewsChoices }
      \cup { NoVoices }

MarkerChoices == { {}, {"GameWatcher.sln"}, {".git"} }

\* ------------------------------------------------------------------ Init
Fresh ==
    /\ pc = "idle"
    /\ catalog_writes = 0
    /\ current = NoRoot
    /\ repo_root = NoRoot
    /\ dialogues = <<>>
    /\ audio_files_by_speaker = <<>>
    /\ idx = 0
    /\ updates_made = 0
    /\ stdout = <<>>
    /\ runs = 0

\* a checkout: the script two levels below the filesystem root, .git in the
\* directory at depth 1 when the script lies deeper than that
CheckoutMarkers == [d \in 0..MaxDepth |-> IF d = 1 THEN {".git"} ELSE {}]

\* every marker layout along the walk, with catalogs of at most one entry
InitWalk ==
    /\ startDepth \in 0..MaxDepth
    /\ markers \in [0..startDepth -> MarkerChoices]
    /\ voices \in { Tree(<<Dir(<<File("a", "mp3")>>)>>, <<>>, <<>>), NoVoices }
    /\ catalogFile \in CatalogFiles(1, EntryKinds)

\* every catalog and voices tree, inside a checkout
InitRepair ==
    /\ startDepth = MaxDepth
    /\ markers = CheckoutMarkers
    /\ voices \in Trees
    /\ catalogFile \in CatalogFiles(MaxEntries, EntryKinds)

Init == Fresh /\ (InitWalk \/ InitRepair)

\* ------------------------------------------------------------------ actions
\* python scripts/fix_audio_associations.py
StartRun ==
    /\ pc \in {"idle", "done", "aborted"}
    /\ runs < MaxRuns
    /\ runs' = runs + 1
    /\ pc' = "walk"
    /\ current' = startDepth
    /\ repo_root' = NoRoot
    /\ dialogues' = <<>>
    /\ audio_files_by_speaker' = <<>>
    /\ idx' = 0
    /\ updates_made' = 0
    /\ catalog_writes' = 0
    /\ UNCHANGED <<startDepth, markers, voices, catalogFile, stdout>>

WalkFound ==
    /\ pc = "walk"
    /\ Parent(current) # current
    /\ HasMarker(markers, current)
    /\ repo_root' = current
    /\ pc' = "load"
    /\ UNCHANGED <<startDepth, markers, voices, catalogFile, catalog_writes, current,
                   dialogues, audio_files_by_speaker, idx, updates_made, stdout, runs>>

WalkUp ==
    /\ pc = "walk"
    /\ Parent(current) # current
    /\ ~HasMarker(markers, current)
    /\ current' = Parent(current)
    /\ UNCHANGED <<pc, startDepth, markers, voices, catalogFile, catalog_writes,
                   repo_root, dialogues, audio_files_by_speaker, idx, updates_made,
                   stdout, runs>>

WalkFallback ==
    /\ pc = "walk"
    /\ Parent(current) = current
    /\ repo_root' = startDepth
    /\ pc' = "load"
    /\ UNCHANGED <<startDepth, markers, voices, catalogFile, catalog_writes, current,
                   dialogues, audio_files_by_speaker, idx, updates_made, stdout, runs>>

LoadCatalog ==
    /\ pc = "load"
    /\ Readable(catalogFile)
    /\ dialogues' = JsonLoad(catalogFile)
    /\ pc' = "scan"
    /\ UNCHANGED <<startDepth, markers, voices, catalogFile, catalog_writes, current,
                   repo_root, audio_files_by_speaker, idx, updates_made, stdout, runs>>

LoadFails ==
    /\ pc = "load"
    /\ ~Readable(catalogFile)
    /\ pc' = "aborted"
    /\ UNCHANGED <<startDepth, markers, voices, catalogFile, catalog_writes, current,
                   repo_root, dialogues, audio_files_by_speaker, idx, updates_made,
                   stdout, runs>>

Scan ==
    /\ pc = "scan"
    /\ voices.exists
    /\ audio_files_by_speaker' = ScanInventory(voices)
    /\ updates_made' = 0
    /\ idx' = 1
    /\ pc' = "loop"
    /\ UNCHANGED <<startDepth, markers, voices, catalogFile, catalog_writes, current,
                   repo_root, dialogues, stdout, runs>>

ScanFails ==
    /\ pc = "scan"
    /\ ~voices.exists
    /\ pc' = "aborted"
    /\ UNCHANGED <<startDepth, markers, voices, catalogFile, catalog_writes, current,
                   repo_root, dialogues, audio_files_by_speaker, idx, updates_made,
                   stdout, runs>>

InLoop == pc = "loop" /\ idx <= Len(dialogues)

\* the abort that saves what was repaired so far
SpeakerKeyErrorSaving ==
    /\ InLoop
    /\ "Speaker" \notin DOMAIN dialogues[idx]
    /\ pc' = "aborted"
    /\ catalogFile' = JsonDump(dialogues)
    /\ catalog_writes' = catalog_writes + 1
    /\ UNCHANGED <<startDepth, markers, voices, current, repo_root, dialogues,
                   audio_files_by_speaker, idx, updates_made, stdout, runs>>

SpeakerKeyError ==
    /\ InLoop
    /\ "Speaker" \notin DOMAIN dialogues[idx]
    /\ pc' = "aborted"
    /\ UNCHANGED <<startDepth, markers, voices, catalogFile, catalog_writes, current,
                   repo_root, dialogues, audio_files_by_speaker, idx, updates_made,
                   stdout, runs>>

SkipValid ==
    /\ InLoop
    /\ "Speaker" \in DOMAIN dialogues[idx]
    /\ AlreadyValid(voices, dialogues[idx])
    /\ idx' = idx + 1
    /\ UNCHANGED <<pc, startDepth, markers, voices, catalogFile, catalog_writes, current,
                   repo_root, dialogues, audio_files_by_speaker, updates_made, stdout,
                   runs>>

\* the skip that flags the entry as having no audio
SkipUnresolvableMarking ==
    /\ InLoop
    /\ "Speaker" \in DOMAIN dialogues[idx]
    /\ ~AlreadyValid(voices, dialogues[idx])
    /\ ~HasPool(audio_files_by_speaker, dialogues[idx]["Speaker"])
    /\ dialogues' = [dialogues EXCEPT ![idx] =
                        [k \in DOMAIN @ \cup {"HasAudio"} |->
                            IF k = "HasAudio" THEN FALSE ELSE @[k]]]
    /\ idx' = idx + 1
    /\ UNCHANGED <<pc, startDepth, markers, voices, catalogFile, catalog_writes, current,
                   repo_root, audio_files_by_speaker, updates_made, stdout, runs>>

SkipUnresolvable ==
    /\ InLoop
    /\ "Speaker" \in DOMAIN dialogues[idx]
    /\ ~AlreadyValid(voices, dialogues[idx])
    /\ ~HasPool(audio_files_by_speaker, dialogues[idx]["Speaker"])
    /\ idx' = idx + 1
    /\ UNCHANGED <<pc, startDepth, markers, voices, catalogFile, catalog_writes, current,
                   repo_root, dialogues, audio_files_by_speaker, updates_made, stdout,
                   runs>>

PrintKeyError ==
    /\ InLoop
    /\ "Speaker" \in DOMAIN dialogues[idx]
    /\ ~AlreadyValid(voices, dialogues[idx])
    /\ HasPool(audio_files_by_speaker, dialogues[idx]["Speaker"])
    /\ ~({"Id", "Text"} \subseteq DOMAIN dialogues[idx])
    /\ pc' = "aborted"
    /\ UNCHANGED <<startDepth, markers, voices, catalogFile, catalog_writes, current,
                   repo_root, dialogues, audio_files_by_speaker, idx, updates_made,
                   stdout, runs>>

Assign ==
    /\ InLoop
    /\ "Speaker" \in DOMAIN dialogues[idx]
    /\ ~AlreadyValid(voices, dialogues[idx])
    /\ HasPool(audio_files_by_speaker, dialogues[idx]["Speaker"])
    /\ {"Id", "Text"} \subseteq DOMAIN dialogues[idx]
    /\ LET speaker == dialogues[idx]["Speaker"]
           audio_file == FirstAvailable(audio_files_by_speaker[speaker])
       IN  /\ stdout' = Append(stdout, [run |-> runs, entry |-> idx,
                                        old |-> GetAudioPath(dialogues[idx]),
                                        new |-> audio_file])
           /\ dialogues' = [dialogues EXCEPT ![idx] = Repaired(@, audio_file)]
           /\ audio_files_by_speaker' =
                 [audio_files_by_speaker EXCEPT ![speaker] = Remove(@, audio_file)]
    /\ updates_made' = updates_made + 1
    /\ idx' = idx + 1
    /\ UNCHANGED <<pc, startDepth, markers, voices, catalogFile, catalog_writes, current,
                   repo_root, runs>>

SaveCatalog ==
    /\ pc = "loop"
    /\ idx > Len(dialogues)
    /\ catalogFile' = JsonDump(dialogues)
    /\ catalog_writes' = catalog_writes + 1
    /\ pc' = "done"
    /\ UNCHANGED <<startDepth, markers, voices, current, repo_root, dialogues,
                   audio_files_by_speaker, idx, updates_made, stdout, runs>>

Next ==
    \/ StartRun
    \/ WalkFound
    \/ WalkUp
    \/ WalkFallback
    \/ LoadCatalog
    \/ LoadFails
    \/ Scan
    \/ ScanFails
    \/ SpeakerKeyError
    \/ SkipValid
    \/ SkipUnresolvable
    \/ PrintKeyError
    \/ Assign
    \/ SaveCatalog

Spec == Init /\ [][Next]_vars

TypeOK ==
    /\ pc \in {"idle", "walk", "load", "scan", "loop", "done", "aborted"}
    /\ runs \in 0..MaxRuns
    /\ idx \in 0..(MaxEntries + 1)
    /\ updates_made \in 0..MaxEntries
    /\ current \in NoRoot..MaxDepth
    /\ repo_root \in NoRoot..MaxDepth

\* ------------------------------------------------------------------ vocabulary of the claims
\* the catalog as this run loaded it: the file is untouched until the save
Loaded == catalogFile.entries

\* positions of the entries this run has updated (one "Updating" line each)
Updated == { stdout[i].entry : i \in { j \in 1..Len(stdout) : stdout[j].run = runs } }

LoopDone == pc = "loop" /\ idx > Len(dialogues)

SaveStep == pc = "loop" /\ pc' = "done"

SpeakerOf(d) == IF "Speaker" \in DOMAIN d THEN d["Speaker"] ELSE ""

Speakers == {"Guard", "Merchant", "previews"}

\* the entry's AudioPath is a non-empty path of a file that is on disk
OnDisk(d) ==
    /\ "AudioPath" \in DOMAIN d
    /\ d["AudioPath"] # EmptyPath
    /\ PathExists(voices, d["AudioPath"])

\* the .mp3 files of voices/<s>/ in listing order, none for previews or for a
\* name that is no directory
Scanned(s) ==
    IF voices.exists /\ s \in DOMAIN voices.dirs /\ voices.dirs[s].isDir /\ s # "previews"
    THEN LET mp3 == SelectSeq(voices.dirs[s].listing, LAMBDA f : f.ext = "mp3")
         IN  [n \in 1..Len(mp3) |->
                 [parent |-> <<"voices", s>>, stem |-> mp3[n].stem, ext |-> "mp3"]]
    ELSE <<>>

Pool(s) == IF s \in DOMAIN audio_files_by_speaker THEN audio_files_by_speaker[s] ELSE <<>>

UpdatedOf(s) == { i \in Updated : SpeakerOf(dialogues[i]) = s }

Positions(list) == [i \in 1..Len(list) |-> i]

\* positions, in catalog order, of the loaded entries of speaker s that need repair
NeedsRepairOf(s) ==
    SelectSeq(Positions(Loaded),
              LAMBDA i : SpeakerOf(Loaded[i]) = s /\ ~OnDisk(Loaded[i]))

Min(a, b) == IF a <= b THEN a ELSE b

\* ------------------------------------------------------------------ C1
\* C1: any two distinct entries updated in the same run hold different audio
\* paths, in memory at every point of the run and in the catalog it writes.
NoDuplicateAssignment ==
    /\ pc \in {"loop", "done", "aborted"} =>
          \A i \in Updated : \A j \in Updated :
              i # j => dialogues[i]["AudioPath"] # dialogues[j]["AudioPath"]
    /\ pc = "done" =>
          \A i \in Updated : \A j \in Updated :
              i # j => catalogFile.entries[i]["AudioPath"] # catalogFile.entries[j]["AudioPath"]

\* a finished run that updated two entries of the same speaker
TwoUpdatedSameSpeaker ==
    /\ pc = "done"
    /\ \E i \in Updated : \E j \in Updated :
          i # j /\ SpeakerOf(dialogues[i]) = SpeakerOf(dialogues[j])

\* ------------------------------------------------------------------ C2
\* C2: after a run, no file the run assigned to an entry is also the audio path
\* of any other entry of the catalog, the entries the run left untouched
\* included.
AssignedPreviouslyUnused ==
    pc = "done" =>
        \A i \in Updated : \A j \in 1..Len(catalogFile.entries) :
            j # i => GetAudioPath(catalogFile.entries[j]) # catalogFile.entries[i]["AudioPath"]

\* ------------------------------------------------------------------ C3
\* C3: an entry whose AudioPath is non-empty and exists on disk is left
\* unchanged in all its fields, by the step that processes it and in the
\* catalog the run writes; this holds for every run, so a second run leaves
\* unchanged every entry whose path exists, those the first run updated
\* included.
ValidEntriesUnchanged ==
    [][ /\ (InLoop /\ OnDisk(dialogues[idx])) =>
              /\ updates_made' = updates_made
              /\ dialogues' = dialogues
        /\ SaveStep =>
              \A i \in 1..Len(Loaded) :
                  OnDisk(Loaded[i]) =>
                      /\ i <= Len(catalogFile'.entries)
                      /\ catalogFile'.entries[i] = Loaded[i] ]_vars

\* a second run has finished over a catalog with an entry the first run
\* updated and an entry whose path was valid from the start
SecondRunOverRepaired ==
    /\ pc = "done"
    /\ runs = 2
    /\ \E n \in 1..Len(stdout) :
          /\ stdout[n].run = 1
          /\ catalogFile.entries[stdout[n].entry]["AudioPath"] = stdout[n].new
    /\ \E i \in 1..Len(catalogFile.entries) :
          /\ OnDisk(catalogFile.entries[i])
          /\ catalogFile.entries[i]["AudioStatus"] = "Missing"

\* ------------------------------------------------------------------ C4
\* C4: an entry that needs repair and whose speaker has no pool (no
\* subdirectory, no audio file in it, or every file already consumed) when it
\* is processed keeps all its fields as loaded, and the update counter does not
\* move.
UnresolvableUntouched ==
    [][ (/\ InLoop
         /\ "Speaker" \in DOMAIN dialogues[idx]
         /\ ~OnDisk(dialogues[idx])
         /\ Pool(dialogues[idx]["Speaker"]) = <<>>) =>
            /\ pc' = "loop"
            /\ idx' = idx + 1
            /\ dialogues'[idx] = Loaded[idx]
            /\ dialogues' = dialogues
            /\ updates_made' = updates_made
            /\ stdout' = stdout ]_vars

\* a finished run left an entry unrepaired because the pool of its speaker was
\* exhausted, another for lack of a subdirectory or of audio files in it
ExhaustedAndAbsent ==
    /\ pc = "done"
    /\ \E i \in 1..Len(dialogues) :
          /\ i \notin Updated
          /\ ~OnDisk(dialogues[i])
          /\ Scanned(SpeakerOf(dialogues[i])) # <<>>
    /\ \E i \in 1..Len(dialogues) :
          /\ i \notin Updated
          /\ ~OnDisk(dialogues[i])
          /\ Scanned(SpeakerOf(dialogues[i])) = <<>>

\* ------------------------------------------------------------------ C5
\* C5: the catalog a run writes has as many entries as the one it loaded, in
\* the same order, and every entry has the same keys outside the four repaired
\* ones, with the same values.
SameOutsideRepair(new, old) ==
    /\ DOMAIN new \ RepairKeys = DOMAIN old \ RepairKeys
    /\ \A k \in DOMAIN old \ RepairKeys : new[k] = old[k]

RoundTripPreserved ==
    [][ SaveStep =>
            /\ Len(catalogFile'.entries) = Len(Loaded)
            /\ \A i \in 1..Len(Loaded) : SameOutsideRepair(catalogFile'.entries[i], Loaded[i])
      ]_vars

\* a run wrote a catalog of several entries, one of them updated and carrying
\* an extra field
WroteUpdatedWithExtra ==
    /\ pc = "done"
    /\ Len(catalogFile.entries) >= 2
    /\ \E i \in Updated : "Extra" \in DOMAIN catalogFile.entries[i]

\* ------------------------------------------------------------------ C6
\* C6: during and after the repair loop, for every speaker the entries updated
\* in this run plus the files left in the pool are as many as the files
\* scanned, and the update counter never exceeds the number of scanned files.
RECURSIVE SumLen(_)
SumLen(S) ==
    IF S = {} THEN 0
    ELSE LET s == CHOOSE x \in S : TRUE IN Len(Scanned(s)) + SumLen(S \ {s})

ConsumptionBalance ==
    pc \in {"loop", "done"} =>
        /\ \A s \in Speakers \cup {""} :
              Cardinality(UpdatedOf(s)) + Len(Pool(s)) = Len(Scanned(s))
        /\ updates_made = Cardinality(Updated)
        /\ updates_made <= SumLen(Speakers)

\* the loop is over with a pool partly consumed
PoolPartlyConsumed ==
    /\ LoopDone
    /\ \E s \in Speakers : Cardinality(UpdatedOf(s)) >= 1 /\ Len(Pool(s)) >= 1

\* ------------------------------------------------------------------ C7
\* C7: every audio path assigned in a run is an .mp3 file listed in the voices
\* subdirectory named after the entry's Speaker, and that subdirectory is never
\* previews.
AssignedFromOwnSpeaker ==
    pc \in {"loop", "done", "aborted"} =>
        \A i \in Updated :
            LET p == dialogues[i]["AudioPath"]
                s == dialogues[i]["Speaker"]
            IN  /\ p.parent = <<"voices", s>>
                /\ s # "previews"
                /\ p.ext = "mp3"
                /\ s \in DOMAIN voices.dirs
                /\ voices.dirs[s].isDir
                /\ \E n \in 1..Len(voices.dirs[s].listing) :
                      voices.dirs[s].listing[n] = File(p.stem, p.ext)

\* a finished run over a tree with audio in previews/ and a catalog with an
\* entry of speaker "previews" to repair, next to an entry it did update
PreviewsEntryPassedOver ==
    /\ pc = "done"
    /\ Updated # {}
    /\ "previews" \in DOMAIN voices.dirs
    /\ \E i \in 1..Len(dialogues) :
          SpeakerOf(dialogues[i]) = "previews" /\ GetAudioPath(dialogues[i]) = EmptyPath

\* ------------------------------------------------------------------ C8
\* C8: the catalog file changes, and is opened for writing, in one step only:
\* the save after the whole loop, once per run; a run that aborts leaves the
\* file as it was.
WriteOnlyAfterCompletePass ==
    [][ /\ (catalogFile' # catalogFile \/ catalog_writes' > catalog_writes) =>
              /\ LoopDone
              /\ pc' = "done"
              /\ catalog_writes = 0
              /\ catalog_writes' = 1
        /\ pc' = "aborted" => (catalogFile' = catalogFile /\ catalog_writes' = 0) ]_vars

\* a first run aborted in the middle of the loop, after updating an entry in
\* memory
AbortedAfterUpdate ==
    /\ pc = "aborted"
    /\ runs = 1
    /\ updates_made >= 1
    /\ idx <= Len(dialogues)
    /\ dialogues # catalogFile.entries

\* ------------------------------------------------------------------ C9
MarkedDepths(lo) ==
    { d \in lo..startDepth : markers[d] \cap {"GameWatcher.sln", ".git"} # {} }

Nearest(S) == CHOOSE d \in S : \A e \in S : e <= d

\* C9 as stated: the nearest directory with a marker, the filesystem root
\* included, is returned; with no marker on the walk the run gets no further
\* than its abort, and the catalog is neither read nor written.
RootNotFoundIsFatal ==
    pc \notin {"idle", "walk"} =>
        IF MarkedDepths(0) # {}
        THEN repo_root = Nearest(MarkedDepths(0))
        ELSE pc \in {"load", "aborted"} /\ dialogues = <<>> /\ catalog_writes = 0

\* C9 as amended: every step of the walk moves to the parent directory, it
\* returns the nearest directory below the filesystem root that holds a marker,
\* and otherwise (the filesystem root is never tested) the script's grandparent
\* directory, and main goes on to load the catalog under it.
RootFoundOrFallback ==
    /\ [](pc \notin {"idle", "walk"} =>
             repo_root = IF MarkedDepths(1) # {} THEN Nearest(MarkedDepths(1))
                         ELSE startDepth)
    /\ [][ pc = "walk" =>
              \/ pc' = "walk" /\ current' = current - 1 /\ current' >= 0
              \/ pc' = "load" /\ current' = current ]_vars

\* the walk fell back to the script's grandparent directory although the
\* filesystem root holds a marker
FellBackPastMarkedRoot ==
    /\ pc = "load"
    /\ startDepth >= 1
    /\ repo_root = startDepth
    /\ 0 \in MarkedDepths(0)
    /\ MarkedDepths(1) = {}

\* ------------------------------------------------------------------ C10
\* C10: when the loop is over, for every speaker with n scanned files and m
\* entries needing repair, the k-th such entry holds the k-th scanned file with
\* HasAudio true, status "Ready" and colour "Green" when k <= n and is as
\* loaded when k > n, and exactly min(m, n) entries of the speaker are updated.
GreedyFirstAvailable ==
    LoopDone =>
        \A s \in Speakers :
            LET need == NeedsRepairOf(s)
                files == Scanned(s)
            IN  /\ Cardinality(UpdatedOf(s)) = Min(Len(need), Len(files))
                /\ \A k \in 1..Len(need) :
                      IF k <= Len(files)
                      THEN /\ need[k] \in Updated
                           /\ dialogues[need[k]]["AudioPath"] = files[k]
                           /\ dialogues[need[k]]["HasAudio"] = TRUE
                           /\ dialogues[need[k]]["AudioStatus"] = "Ready"
                           /\ dialogues[need[k]]["AudioStatusColor"] = "Green"
                      ELSE /\ need[k] \notin Updated
                           /\ dialogues[need[k]] = Loaded[need[k]]

\* the loop is over for a speaker with two files and three entries to repair
TwoFilesThreeEntries ==
    /\ LoopDone
    /\ Len(Scanned("Guard")) = 2
    /\ Len(NeedsRepairOf("Guard")) = 3
    /\ Cardinality(UpdatedOf("Guard")) = 2
====
